---- MODULE Spec2Model ----
(***************************************************************************)
(* Model of VoiceClient (web-speech.ts): the voice-assistant state machine *)
(* together with the three engines it drives (speech recognizer, audio     *)
(* recorder, speech synthesizer), the browser timers, and the single       *)
(* consumer of events().                                                   *)
(*                                                                         *)
(* One action is one browser task: a public call or an engine callback,    *)
(* run to completion together with the microtasks it schedules.  Each      *)
(* handler is written as a chain of steps over a record m holding the      *)
(* object's fields and the engines' state; a step that throws sets         *)
(* m.threw, and the steps after it are skipped.                            *)
(***************************************************************************)
EXTENDS Integers, Sequences, FiniteSets, TLC

\* ---------------------------------------------------------------- bounds
\* asynchronous work outstanding at one time: pending timers, recorders not yet
\* gone, #activate calls in flight, utterances not yet reported
MaxPending == 4
MaxQueue == 2
MaxClock == 1
MaxTranscript == 1

\* ------------------------------------------------------- VoiceAssistantState
LISTENING_FOR_WAKE_WORD == "LISTENING_FOR_WAKE_WORD"
ACTIVATING == "ACTIVATING"
RECORDING_USER_SPEECH == "RECORDING_USER_SPEECH"
PROCESSING_USER_SPEECH == "PROCESSING_USER_SPEECH"
MUTED == "MUTED"
SPEAKING == "SPEAKING"

VoiceAssistantState ==
  {LISTENING_FOR_WAKE_WORD, ACTIVATING, RECORDING_USER_SPEECH,
   PROCESSING_USER_SPEECH, MUTED, SPEAKING}

\* initialState: the default of init() and the value main.ts passes
InitialStates == {LISTENING_FOR_WAKE_WORD, MUTED}

\* ------------------------------------------------------------- program constants
NoSpeechAfterWakeWordMs == 15000
EndOfSpeechMs == 1700
NoSpeechYetMs == 5000

VARIABLES
  state,                          \* #state
  audioRecorder,                  \* #audioRecorder: Undefined, Dead or a recorder id
  endOfSpeechTimeout,             \* #endOfSpeechTimeout: Undefined, Dead or a timer id
  noSpeechAfterWakeWordTimeout,   \* #noSpeechAfterWakeWordTimeout: likewise
  finalTranscriptSinceRecording,  \* #finalTranscriptSinceRecording
  eventQueue,                     \* #eventQueue
  eventResolver,                  \* #eventResolver is not null
  recognition,                    \* the recognizer: idle, running, stopping
  recorders,                      \* the media recorders of the page
  timers,                         \* the pending setTimeout timers
  synth,                          \* utterances queued or playing in speechSynthesis
  synthCancelled,                 \* cancelled utterances whose event is yet to fire
  activations,                    \* #activate calls awaiting AudioRecorder.start
  clock,                          \* Date.now()
  consumer,                       \* the position of the consumer of events()
  last,                           \* the task that ran last
  emitted,                        \* the events that task emitted, in order
  calls,                          \* the engine calls that task made, in order
  yieldedNow,                     \* the events that task handed to the consumer
  yieldedTs,                      \* the timestamp of the last event handed over
  page                            \* main.ts: the command handlers and who awaits speak()

vars ==
  <<state, audioRecorder, endOfSpeechTimeout, noSpeechAfterWakeWordTimeout,
    finalTranscriptSinceRecording, eventQueue, eventResolver, recognition,
    recorders, timers, synth, synthCancelled, activations, clock, consumer,
    last, emitted, calls, yieldedNow, yieldedTs, page>>

\* ------------------------------------------------------------- references
\* A field holding a handle is Undefined, a handle of something still known to
\* its engine (a positive id), or Dead: a handle whose timer has fired, or whose
\* recorder has delivered its stop event.  Dead is truthy, like any handle.
Undefined == 0
Dead == -1

TimerIds == 1..MaxPending
RecorderIds == 1..MaxPending

NoTimer == [kind |-> "none", ms |-> 0, stale |-> FALSE]
NoRecorder == [status |-> "free", onstop |-> "none"]

Min(S) == CHOOSE x \in S : \A y \in S : x <= y

FreeTimers(m) == {t \in TimerIds : m.timers[t] = NoTimer}
FreeRecorders(m) == {r \in RecorderIds : m.recorders[r] = NoRecorder}

\* ------------------------------------------------------------- events
StateChangeEvent(s) ==
  [type |-> "statechange", state |-> s, text |-> <<>>, flag |-> FALSE, ts |-> clock]
TranscriptEvent(t, isFinal) ==
  [type |-> "transcript", state |-> "", text |-> t, flag |-> isFinal, ts |-> clock]
CommandEvent(hasAudio) ==
  [type |-> "command", state |-> "", text |-> <<>>, flag |-> hasAudio, ts |-> clock]
SpeakStartEvent(t) ==
  [type |-> "speakstart", state |-> "", text |-> t, flag |-> FALSE, ts |-> clock]
SpeakEndEvent ==
  [type |-> "speakend", state |-> "", text |-> <<>>, flag |-> FALSE, ts |-> clock]
ErrorEvent(msg) ==
  [type |-> "error", state |-> msg, text |-> <<>>, flag |-> FALSE, ts |-> clock]

\* ------------------------------------------------------------- the record m
Cur ==
  [state |-> state,
   audioRecorder |-> audioRecorder,
   endOfSpeechTimeout |-> endOfSpeechTimeout,
   noSpeechAfterWakeWordTimeout |-> noSpeechAfterWakeWordTimeout,
   finalTranscriptSinceRecording |-> finalTranscriptSinceRecording,
   recognition |-> recognition,
   recorders |-> recorders,
   timers |-> timers,
   synth |-> synth,
   synthCancelled |-> synthCancelled,
   activations |-> activations,
   page |-> page,
   es |-> <<>>,
   calls |-> <<>>,
   threw |-> "none"]

Ok(m) == m.threw = "none"

\* #emit, lines 190-193: push the event; the resolver is handled in Channel
Emit(m, e) == IF Ok(m) THEN [m EXCEPT !.es = Append(@, e)] ELSE m

\* set state that emits on every assignment
SetStateAlways(m, newState) ==
  IF ~Ok(m) THEN m
  ELSE Emit([m EXCEPT !.state = newState], StateChangeEvent(newState))

\* set state, lines 221-225
SetState(m, newState) ==
  IF ~Ok(m) \/ m.state = newState THEN m
  ELSE Emit([m EXCEPT !.state = newState], StateChangeEvent(newState))

\* a call that is only recorded: resolve(), reject(), Promise.resolve()
Call(m, name) == IF Ok(m) THEN [m EXCEPT !.calls = Append(@, name)] ELSE m

\* the calls of one kind a task made
CallCount(cs, name) == Cardinality({i \in 1..Len(cs) : cs[i] = name})

\* recognition.start(): InvalidStateError when the session is still active
RecognitionStart(m) ==
  IF ~Ok(m) THEN m
  ELSE IF m.recognition = "idle"
       THEN [m EXCEPT !.recognition = "running",
                      !.calls = Append(@, "recognition.start")]
       ELSE [m EXCEPT !.calls = Append(@, "recognition.start"),
                      !.threw = "InvalidStateError"]

\* recognition.stop(): the end event follows later
RecognitionStop(m) ==
  IF ~Ok(m) THEN m
  ELSE [m EXCEPT !.recognition = IF @ = "running" THEN "stopping" ELSE @,
                 !.calls = Append(@, "recognition.stop")]

\* toggleMute without line 172
SynthCancelForgotten(m) == m

\* speechSynthesis.cancel(): every utterance leaves the queue, its event is due
SynthCancel(m) ==
  IF ~Ok(m) THEN m
  ELSE [m EXCEPT !.synthCancelled = @ + m.synth,
                 !.synth = 0,
                 !.calls = Append(@, "speechSynthesis.cancel")]

\* speechSynthesis.speak(utterance)
SynthSpeak(m) ==
  IF ~Ok(m) THEN m
  ELSE [m EXCEPT !.synth = @ + 1,
                 !.calls = Append(@, "speechSynthesis.speak")]

\* clearTimeout(handle)
ClearTimeout(m, handle) ==
  IF ~Ok(m) \/ handle \notin TimerIds THEN m
  ELSE [m EXCEPT !.timers[handle] = NoTimer]

\* setTimeout(callback, ms): the handle of the new timer
NewTimer(m) == Min(FreeTimers(m))
SetTimeout(m, kind, ms) ==
  IF ~Ok(m) THEN m
  ELSE [m EXCEPT !.timers[NewTimer(m)] = [kind |-> kind, ms |-> ms, stale |-> FALSE]]

\* AudioRecorder.stop, lines 92-114: sets onstop and stops the media recorder;
\* on a recorder already stopped only the onstop handler changes
AudioRecorderStop(m, handle, onstop) ==
  IF ~Ok(m) \/ handle = Undefined THEN m
  ELSE IF handle = Dead THEN Call(m, "mediaRecorder.stop")
  ELSE [m EXCEPT !.recorders[handle] = [status |-> "stopping", onstop |-> onstop],
                 !.calls = Append(@, "mediaRecorder.stop")]

\* the states in which toggleMute tears the recording down, lines 173-176
MuteTeardownStates == {RECORDING_USER_SPEECH, ACTIVATING}

\* toggleMute, lines 177-184
MuteTeardown(m) ==
  IF ~Ok(m) \/ m.state \notin MuteTeardownStates THEN m
  ELSE LET m1 == AudioRecorderStop(m, m.audioRecorder, "discard")
           m2 == [m1 EXCEPT !.audioRecorder = Undefined]
           m3 == ClearTimeout(m2, m2.endOfSpeechTimeout)
           m4 == [m3 EXCEPT !.endOfSpeechTimeout = Undefined]
           m5 == ClearTimeout(m4, m4.noSpeechAfterWakeWordTimeout)
       IN  [m5 EXCEPT !.noSpeechAfterWakeWordTimeout = Undefined]

\* toggleMute that only ever mutes
ToggleMuteOneWay(m) ==
  SetState(MuteTeardown(SynthCancel(RecognitionStop(m))), MUTED)

\* toggleMute, lines 164-188
ToggleMuteBody(m) ==
  IF m.state = MUTED
  THEN RecognitionStart(SetState(m, LISTENING_FOR_WAKE_WORD))
  ELSE SetState(MuteTeardown(SynthCancel(RecognitionStop(m))), MUTED)

\* speak without line 275
SpeakBodyUnguarded(m, text) ==
  SynthSpeak(Emit(RecognitionStop(SetState(m, SPEAKING)), SpeakStartEvent(text)))

\* speak, lines 274-305
SpeakBody(m, text) ==
  IF m.state = MUTED THEN Call(m, "Promise.resolve")
  ELSE SynthSpeak(Emit(RecognitionStop(SetState(m, SPEAKING)), SpeakStartEvent(text)))

\* utterance.onend and utterance.onerror, lines 285-288 and 297-300
RestoreAfterSpeech(m) ==
  RecognitionStart(IF m.state # MUTED THEN SetState(m, LISTENING_FOR_WAKE_WORD) ELSE m)

\* utterance.onend, lines 283-290
UtteranceOnEnd(m) == Call(RestoreAfterSpeech(Emit(m, SpeakEndEvent)), "resolve")

\* utterance.onerror, lines 291-302
UtteranceOnError(m) ==
  Call(RestoreAfterSpeech(Emit(m, ErrorEvent("TTS Error"))), "reject")

\* #stopRecording up to its await, lines 322-332
StopRecording(m) ==
  IF ~Ok(m) \/ m.state # RECORDING_USER_SPEECH THEN m
  ELSE LET m1 == SetState(m, PROCESSING_USER_SPEECH)
           m2 == ClearTimeout(m1, m1.endOfSpeechTimeout)
           m3 == [m2 EXCEPT !.endOfSpeechTimeout = Undefined]
           m4 == ClearTimeout(m3, m3.noSpeechAfterWakeWordTimeout)
           m5 == [m4 EXCEPT !.noSpeechAfterWakeWordTimeout = Undefined]
       IN  IF m5.audioRecorder = Undefined
           THEN [m5 EXCEPT !.threw = "TypeError"]
           ELSE AudioRecorderStop(m5, m5.audioRecorder, "command")

\* #stopRecording after its await, lines 333-339
StopRecordingResume(m, hasAudio) ==
  Emit([m EXCEPT !.audioRecorder = Undefined], CommandEvent(hasAudio))

\* #activate without line 312
ActivateKeepTranscript(m) ==
  IF ~Ok(m) \/ m.state # LISTENING_FOR_WAKE_WORD THEN m
  ELSE [SetState(m, ACTIVATING) EXCEPT !.activations = @ + 1]

\* #activate up to its await, lines 307-313
Activate(m) ==
  IF ~Ok(m) \/ m.state # LISTENING_FOR_WAKE_WORD THEN m
  ELSE LET m1 == SetState(m, ACTIVATING)
       IN  [m1 EXCEPT !.finalTranscriptSinceRecording = <<>>,
                      !.activations = @ + 1]

\* entering Recording makes the timers still pending those of an earlier episode
MarkStale(m) ==
  [m EXCEPT !.timers = [t \in TimerIds |->
      IF m.timers[t] = NoTimer THEN NoTimer ELSE [m.timers[t] EXCEPT !.stale = TRUE]]]

\* arming the post-wake-word timer, lines 316-319
ArmNoSpeechTimer(m) ==
  [SetTimeout(m, "noSpeechAfterWakeWord", NoSpeechAfterWakeWordMs)
     EXCEPT !.noSpeechAfterWakeWordTimeout = NewTimer(m)]

\* #activate after its await, lines 313-319; AudioRecorder.start, lines 66-85
ActivateResume(m) ==
  LET r  == Min(FreeRecorders(m))
      m1 == [m EXCEPT !.activations = @ - 1,
                      !.recorders[r] = [status |-> "live", onstop |-> "none"],
                      !.calls = Append(@, "mediaRecorder.start"),
                      !.audioRecorder = r]
      m2 == IF m1.state # RECORDING_USER_SPEECH THEN MarkStale(m1) ELSE m1
      m3 == SetState(m2, RECORDING_USER_SPEECH)
  IN  ArmNoSpeechTimer(m3)

\* #activate when AudioRecorder.start rejects, lines 86-89 and 313
ActivateFail(m) ==
  [m EXCEPT !.activations = @ - 1, !.threw = "Could not get user media"]

\* ------------------------------------------------------------- transcripts
\* A transcript is a sequence of tokens: words, and "_" for a run of non-letters.
hi == <<"hi">>
okay == <<"ok", "_">>
metallica == <<"metallica">>
\* what the wake pattern is tested on when okay is interim and metallica is final
okMetallica == okay \o metallica

Result(isFinal, transcript) == [isFinal |-> isFinal, transcript |-> transcript]

\* the slices results[resultIndex..] the recognizer delivers
ResultLists ==
  { <<Result(FALSE, <<>>)>>,
    <<Result(FALSE, hi)>>,
    <<Result(TRUE, metallica)>>,
    <<Result(TRUE, metallica), Result(FALSE, okay)>> }

\* the loop of #onResult, lines 344-352
RECURSIVE Collect(_, _, _)
Collect(results, i, isFinal) ==
  IF i > Len(results) THEN <<>>
  ELSE (IF results[i].isFinal = isFinal THEN results[i].transcript ELSE <<>>)
       \o Collect(results, i + 1, isFinal)

\* /(?:ok|okay)[^a-z]+metallica/i, line 229
WakePhraseRegexTest(text) ==
  \E i \in 1..Len(text) : \E j \in (i + 2)..Len(text) :
    /\ text[i] \in {"ok", "okay"}
    /\ \A k \in (i + 1)..(j - 1) : text[k] = "_"
    /\ text[j] = "metallica"

\* a timeout that looks at the interim text only
EndOfSpeechTimeoutMsInterimOnly(finalText, interimText) ==
  IF Len(interimText) > 0 THEN EndOfSpeechMs ELSE NoSpeechYetMs

\* the end-of-utterance timeout, lines 378-381
EndOfSpeechTimeoutMs(finalText, interimText) ==
  IF Len(finalText) + Len(interimText) > 0 THEN EndOfSpeechMs ELSE NoSpeechYetMs

\* #onResult in Recording, lines 376-387
OnResultRecording(m, interimTranscript, newlyFinalizedTranscript) ==
  LET m1 == [m EXCEPT !.finalTranscriptSinceRecording = @ \o newlyFinalizedTranscript]
      ms == EndOfSpeechTimeoutMs(m1.finalTranscriptSinceRecording, interimTranscript)
      m2 == ClearTimeout(m1, m1.endOfSpeechTimeout)
  IN  [SetTimeout(m2, "endOfSpeech", ms) EXCEPT !.endOfSpeechTimeout = NewTimer(m2)]

\* #onResult without line 343
OnResultBodyHeardInMuted(m, results) ==
  LET interimTranscript == Collect(results, 1, FALSE)
      newlyFinalizedTranscript == Collect(results, 1, TRUE)
      m1 == IF interimTranscript # <<>>
            THEN Emit(m, TranscriptEvent(interimTranscript, FALSE)) ELSE m
  IN  IF newlyFinalizedTranscript # <<>>
      THEN Emit(m1, TranscriptEvent(newlyFinalizedTranscript, TRUE)) ELSE m1

\* #onResult, lines 342-389
OnResultBody(m, results) ==
  IF m.state = MUTED THEN m
  ELSE LET interimTranscript == Collect(results, 1, FALSE)
           newlyFinalizedTranscript == Collect(results, 1, TRUE)
           m1 == IF interimTranscript # <<>>
                 THEN Emit(m, TranscriptEvent(interimTranscript, FALSE)) ELSE m
           m2 == IF newlyFinalizedTranscript # <<>>
                 THEN Emit(m1, TranscriptEvent(newlyFinalizedTranscript, TRUE)) ELSE m1
       IN  IF m2.state = LISTENING_FOR_WAKE_WORD
           THEN IF WakePhraseRegexTest(interimTranscript \o newlyFinalizedTranscript)
                THEN Activate(m2) ELSE m2
           ELSE IF m2.state = RECORDING_USER_SPEECH
                THEN OnResultRecording(m2, interimTranscript, newlyFinalizedTranscript)
                ELSE m2

RecognitionErrors == {"aborted", "no-speech", "network"}

\* #onError without lines 396-400
OnErrorBodyNoSpeechReported(m, error) ==
  IF error = "aborted" THEN m
  ELSE LET m1 == Emit(m, ErrorEvent("Recognition Error"))
       IN  IF m1.state = RECORDING_USER_SPEECH THEN StopRecording(m1) ELSE m1

\* #onError, lines 391-414
OnErrorBody(m, error) ==
  IF error = "aborted" THEN m
  ELSE IF error = "no-speech" THEN StopRecording(m)
  ELSE LET m1 == Emit(m, ErrorEvent("Recognition Error"))
       IN  IF m1.state = RECORDING_USER_SPEECH THEN StopRecording(m1) ELSE m1

\* #onSpeechStart without line 420
OnSpeechStartBodyAnyState(m) ==
  IF m.noSpeechAfterWakeWordTimeout # Undefined
  THEN [ClearTimeout(m, m.noSpeechAfterWakeWordTimeout)
          EXCEPT !.noSpeechAfterWakeWordTimeout = Undefined]
  ELSE m

\* #onSpeechStart, lines 418-426
OnSpeechStartBody(m) ==
  IF m.state = RECORDING_USER_SPEECH /\ m.noSpeechAfterWakeWordTimeout # Undefined
  THEN [ClearTimeout(m, m.noSpeechAfterWakeWordTimeout)
          EXCEPT !.noSpeechAfterWakeWordTimeout = Undefined]
  ELSE m

\* #onEnd without lines 429-432
OnEndBodyAlways(m) == RecognitionStart(m)

\* #onEnd, lines 428-434
OnEndBody(m) ==
  IF m.state \in {SPEAKING, MUTED} THEN m ELSE RecognitionStart(m)


\* ------------------------------------------------------------- the event channel
\* #emit, lines 194-197, for the events es of one task, and the generator of
\* events(), lines 206-210, resumed by the resolver once the task has returned:
\* <<queue, resolver set, events yielded, consumer>>
\* a generator that takes the newest event: pop() for shift()
ShiftNewest(q) == <<q[Len(q)]>> \o SubSeq(q, 2, Len(q) - 1)

\* eventQueue.shift(), line 208: the queue after the shift, its head handed over
Shift(q) == Tail(q)

\* #emit without lines 194-197: the event is pushed and nobody is woken
ChannelNoWake(es) == <<eventQueue \o es, eventResolver, <<>>, consumer>>

Channel(es) ==
  LET q == eventQueue \o es
  IN  IF eventResolver /\ es # <<>>
      THEN IF consumer \in {"forAwait", "responder"}
           THEN <<<<>>, TRUE, q, consumer>>
           ELSE <<Shift(q), FALSE, <<Head(q)>>, "holding">>
      ELSE <<q, eventResolver, <<>>, consumer>>

SpeakTexts == {<<"hello">>}

\* ------------------------------------------------------------- handles
\* A handle is opaque: the program only stores it and hands it back.  After each
\* task the pending timers and the recorders are renumbered in a fixed order,
\* those the fields name first, so that states differing only in the numbers
\* the browser happened to hand out are one state.
TimerRank(t) == 2 * t.ms + (IF t.stale THEN 1 ELSE 0)
RecorderRank(r) ==
  IF r.status = "live" THEN 0 ELSE IF r.onstop = "command" THEN 1 ELSE 2

RECURSIVE SortByRank(_, _)
SortByRank(S, rank) ==
  IF S = {} THEN <<>>
  ELSE LET x == CHOOSE x \in S : \A y \in S : rank[x] <= rank[y]
       IN  <<x>> \o SortByRank(S \ {x}, rank)

Position(order, h) == CHOOSE i \in 1..Len(order) : order[i] = h

RenumberTimers(m) ==
  LET e == m.endOfSpeechTimeout
      n == m.noSpeechAfterWakeWordTimeout
      named == (IF e \in TimerIds THEN <<e>> ELSE <<>>)
               \o (IF n \in TimerIds THEN <<n>> ELSE <<>>)
      rest == {t \in TimerIds : m.timers[t] # NoTimer /\ t # e /\ t # n}
      order == named \o SortByRank(rest, [t \in rest |-> TimerRank(m.timers[t])])
  IN  [m EXCEPT
         !.timers = [i \in TimerIds |->
                       IF i <= Len(order) THEN m.timers[order[i]] ELSE NoTimer],
         !.endOfSpeechTimeout = IF e \in TimerIds THEN Position(order, e) ELSE e,
         !.noSpeechAfterWakeWordTimeout =
            IF n \in TimerIds THEN Position(order, n) ELSE n]

RenumberRecorders(m) ==
  LET a == m.audioRecorder
      named == IF a \in RecorderIds THEN <<a>> ELSE <<>>
      rest == {r \in RecorderIds : m.recorders[r] # NoRecorder /\ r # a}
      order == named \o SortByRank(rest, [r \in rest |-> RecorderRank(m.recorders[r])])
  IN  [m EXCEPT
         !.recorders = [i \in RecorderIds |->
                          IF i <= Len(order) THEN m.recorders[order[i]] ELSE NoRecorder],
         !.audioRecorder = IF a \in RecorderIds THEN Position(order, a) ELSE a]

Renumber(m) == RenumberRecorders(RenumberTimers(m))

\* ------------------------------------------------------------- the page, main.ts
\* thinking: #handleCommand calls awaiting fetch and the completion, lines 67-103;
\* awaiting: who awaits the completion that the handlers of #utterance settle:
\* "try" (line 108 or 111), "catch" (line 117), "click" (line 288 or 299);
\* stranded: awaits of a completion whose handlers were replaced by a later speak()
NoPage == [thinking |-> 0, awaiting |-> "none", stranded |-> 0]

listening == <<"listening">>
sorry == <<"sorry">>

\* await client.speak(text) by who: web-speech.ts lines 281-303 replace the handlers
Bind(m, who) ==
  [m EXCEPT !.page.awaiting = who,
            !.page.stranded = IF m.page.awaiting = "none" THEN @ ELSE @ + 1]

\* finally, line 119
Finally(m) == SetState(m, LISTENING_FOR_WAKE_WORD)

\* await this.client.speak(text) in #handleCommand, in the try or the catch
\* block; in Muted the completion is already fulfilled and finally follows
AwaitSpeak(m, text, who) ==
  IF m.state = MUTED THEN Finally(SpeakBody(m, text))
  ELSE Bind(SpeakBody(m, text), who)

\* the continuations that run when the task has returned: #handleCommand for
\* each Command event with audio the wrapper of lines 54-61 sees, and whoever
\* awaited the completion that the task has fulfilled or rejected
Handled(m) ==
  IF consumer = "responder"
  THEN [m EXCEPT !.page.thinking =
          @ + Cardinality({i \in 1..Len(m.es) : m.es[i].type = "command" /\ m.es[i].flag})]
  ELSE m

Settled(m) ==
  LET who == m.page.awaiting
      m1  == [m EXCEPT !.page.awaiting = "none"]
  IN  IF who = "none" THEN m
      ELSE IF CallCount(m.calls, "resolve") > 0
           THEN IF who = "click" THEN m1 ELSE Finally(m1)
      ELSE IF CallCount(m.calls, "reject") > 0
           THEN IF who = "click" THEN m1
                ELSE IF who = "try" THEN AwaitSpeak(m1, sorry, "catch")
                ELSE Finally(m1)
      ELSE m

Microtasks(m) == Settled(Handled(m))

\* ------------------------------------------------------------- one task
StateChanges(es) == Cardinality({i \in 1..Len(es) : es[i].type = "statechange"})

\* What is remembered of the task that ran last: its name, its argument (the
\* text of speak, the value assigned to state, the results or the error of a
\* recognizer event, the outcome of a recorder), the state it started
\* in, what it threw, the timer whose firing it was, and, when it is a
\* toggleMute() that directly follows another toggleMute(), the state before
\* the first of the two and the StateChange events the two emitted.
Task(op, arg, threw, firedTimer, es) ==
  LET second == op = "toggleMute" /\ last.op = "toggleMute"
  IN  [op |-> op, arg |-> arg, pre |-> state, threw |-> threw, timer |-> firedTimer,
       second |-> second,
       origin |-> IF second THEN last.pre ELSE "",
       changes |-> IF second THEN StateChanges(emitted) + StateChanges(es) ELSE 0]

Pending(m) ==
  Cardinality({t \in TimerIds : m.timers[t] # NoTimer})
  + Cardinality({r \in RecorderIds : m.recorders[r] # NoRecorder})
  + m.activations + m.synth + m.synthCancelled
  + m.page.thinking + m.page.stranded

\* The fields and engines become those of m, the events of m go through the
\* channel, and last, emitted and calls record what the task did.
Commit(op, arg, done, firedTimer) ==
  \E d \in {done} : \E s \in {Microtasks(d)} : \E m \in {Renumber(s)} :
    \E ch \in {Channel(m.es)} :
      /\ Pending(m) <= MaxPending
      /\ Len(ch[1]) <= MaxQueue
      /\ state' = m.state
      /\ audioRecorder' = m.audioRecorder
      /\ endOfSpeechTimeout' = m.endOfSpeechTimeout
      /\ noSpeechAfterWakeWordTimeout' = m.noSpeechAfterWakeWordTimeout
      /\ finalTranscriptSinceRecording' = m.finalTranscriptSinceRecording
      /\ recognition' = m.recognition
      /\ recorders' = m.recorders
      /\ timers' = m.timers
      /\ synth' = m.synth
      /\ synthCancelled' = m.synthCancelled
      /\ activations' = m.activations
      /\ page' = m.page
      /\ eventQueue' = ch[1]
      /\ eventResolver' = ch[2]
      /\ yieldedNow' = ch[3]
      /\ consumer' = ch[4]
      /\ yieldedTs' = IF ch[3] # <<>> THEN ch[3][Len(ch[3])].ts ELSE yieldedTs
      /\ last' = Task(op, arg, m.threw, firedTimer, m.es)
      /\ emitted' = m.es
      /\ calls' = m.calls
      /\ clock' = clock

\* ------------------------------------------------------------- initial state
\* constructor, lines 132-158, then init, line 270: recognition.start()
InitClient ==
  /\ state \in InitialStates
  /\ audioRecorder = Undefined
  /\ endOfSpeechTimeout = Undefined
  /\ noSpeechAfterWakeWordTimeout = Undefined
  /\ finalTranscriptSinceRecording = <<>>
  /\ eventQueue = <<>>
  /\ eventResolver = (consumer \in {"forAwait", "responder"})
  /\ page = NoPage
  /\ recognition = "running"
  /\ recorders = [r \in RecorderIds |-> NoRecorder]
  /\ timers = [t \in TimerIds |-> NoTimer]
  /\ synth = 0
  /\ synthCancelled = 0
  /\ activations = 0
  /\ clock = 0
  /\ last = [op |-> "init", arg |-> <<>>, pre |-> state, threw |-> "none", timer |-> NoTimer,
             second |-> FALSE, origin |-> "", changes |-> 0]
  /\ calls = <<"recognition.start">>
  /\ yieldedTs = 0

\* init, then the loop of main.ts, lines 306-317: for await over events() with a
\* body that does not wait, so the generator has yielded the first StateChange
\* and waits on the resolver, and every later event is handed over in the
\* task that emits it
Init ==
  /\ consumer = "forAwait"
  /\ InitClient
  /\ emitted = <<StateChangeEvent(state)>>
  /\ yieldedNow = emitted

\* init alone: nobody has called events() yet
InitChannel ==
  /\ consumer = "unattached"
  /\ InitClient
  /\ emitted = <<>>
  /\ yieldedNow = <<>>

\* ------------------------------------------------------------- public calls
ToggleMute ==
  /\ state \in VoiceAssistantState
  /\ Commit("toggleMute", <<>>, ToggleMuteBody(Cur), NoTimer)

Speak ==
  \E text \in SpeakTexts :
    /\ Commit("speak", text, SpeakBody(Cur, text), NoTimer)

\* set state, lines 221-225, called from outside: main.ts, line 119
AssignState ==
  \E newState \in VoiceAssistantState :
    /\ Commit("set state", <<newState>>, SetState(Cur, newState), NoTimer)

\* the click handlers of main.ts, lines 282-302
ClickBody(m) ==
  LET m1 == ToggleMuteBody(m)
  IN  IF Ok(m1) /\ m1.state # MUTED THEN Bind(SpeakBody(m1, listening), "click") ELSE m1

Click ==
  /\ consumer = "responder"
  /\ Commit("click", <<>>, ClickBody(Cur), NoTimer)

\* #handleCommand past its fetch and completion, main.ts lines 104-116
ResponderOutcomes == {"answer", "failure"}

RespondBody(m, outcome) ==
  LET m1 == [m EXCEPT !.page.thinking = @ - 1]
  IN  IF outcome = "answer" THEN AwaitSpeak(m1, <<"hello">>, "try")
      ELSE AwaitSpeak(m1, sorry, "catch")

Respond ==
  \E outcome \in ResponderOutcomes :
    /\ page.thinking > 0
    /\ Commit("respond", <<outcome>>, RespondBody(Cur, outcome), NoTimer)

\* ------------------------------------------------------------- synthesizer events
\* the end or error event of the utterance that was playing, or of a cancelled one
UtteranceDone(m) ==
  IF m.synth > 0 THEN [m EXCEPT !.synth = @ - 1] ELSE [m EXCEPT !.synthCancelled = @ - 1]

SynthEnd ==
  /\ synth + synthCancelled > 0
  /\ Commit("utterance.onend", <<>>, UtteranceOnEnd(UtteranceDone(Cur)), NoTimer)

SynthError ==
  /\ synth + synthCancelled > 0
  /\ Commit("utterance.onerror", <<>>, UtteranceOnError(UtteranceDone(Cur)), NoTimer)

\* ------------------------------------------------------------- recognizer events
RecognitionResult ==
  \E results \in ResultLists :
    /\ recognition \in {"running", "stopping"}
    /\ state = RECORDING_USER_SPEECH =>
         \/ endOfSpeechTimeout \in TimerIds
         \/ FreeTimers(Cur) # {}
    /\ LET m == OnResultBody(Cur, results)
       IN  /\ Len(m.finalTranscriptSinceRecording) <= MaxTranscript
           /\ Commit("onresult", results, m, NoTimer)

\* an error event ends the session: the end event follows
RecognitionError ==
  \E error \in RecognitionErrors :
    /\ recognition \in {"running", "stopping"}
    /\ Commit("onerror", <<error>>, OnErrorBody([Cur EXCEPT !.recognition = "stopping"], error), NoTimer)

RecognitionSpeechStart ==
  /\ recognition = "running"
  /\ Commit("onspeechstart", <<>>, OnSpeechStartBody(Cur), NoTimer)

RecognitionEnd ==
  /\ recognition \in {"running", "stopping"}
  /\ Commit("onend", <<>>, OnEndBody([Cur EXCEPT !.recognition = "idle"]), NoTimer)

\* ------------------------------------------------------------- recorder events
CaptureStarted ==
  /\ activations > 0
  /\ FreeRecorders(Cur) # {}
  /\ FreeTimers(Cur) # {}
  /\ Commit("activate.resume", <<>>, ActivateResume(Cur), NoTimer)

CaptureUnavailable ==
  /\ activations > 0
  /\ Commit("activate.fail", <<>>, ActivateFail(Cur), NoTimer)

\* a handle of the recorder r becomes a handle of a recorder that is gone
Forget(m, r) ==
  [m EXCEPT !.recorders[r] = NoRecorder,
            !.audioRecorder = IF @ = r THEN Dead ELSE @]

\* mediaRecorder.onstop, audio.ts lines 94-110, with the continuation it resolves
RecorderOutcomes == {"null", "audio", "reject"}

RecorderStopped ==
  \E r \in RecorderIds : \E outcome \in RecorderOutcomes :
    /\ recorders[r].status = "stopping"
    /\ recorders[r].onstop = "discard" => outcome = "audio"
    /\ LET m == Forget(Cur, r)
       IN  Commit("recorder.onstop", <<recorders[r].onstop, outcome>>,
                  IF recorders[r].onstop = "command"
                  THEN IF outcome = "reject"
                       THEN [m EXCEPT !.threw = "Failed to process recorded audio."]
                       ELSE StopRecordingResume(m, outcome = "audio")
                  ELSE m,
                  NoTimer)

\* ------------------------------------------------------------- timers
\* a handle of the timer t becomes a handle of a timer that has fired
Fired(m, t) ==
  [m EXCEPT !.timers[t] = NoTimer,
            !.endOfSpeechTimeout = IF @ = t THEN Dead ELSE @,
            !.noSpeechAfterWakeWordTimeout = IF @ = t THEN Dead ELSE @]

\* the callbacks of lines 316-319 and 384-387
TimerFires ==
  \E t \in TimerIds :
    /\ timers[t] # NoTimer
    /\ Commit("timer", <<>>, StopRecording(Fired(Cur, t)), timers[t])

\* ------------------------------------------------------------- the consumer
\* events(), lines 200-210: the first next()
ConsumerAttach ==
  /\ consumer = "unattached"
  /\ LET es == <<StateChangeEvent(state)>>
         q  == eventQueue \o es
     IN  /\ eventQueue' = Shift(q)
         /\ yieldedNow' = <<Head(q)>>
         /\ yieldedTs' = Head(q).ts
         /\ emitted' = es
  /\ consumer' = "holding"
  /\ last' = Task("events.attach", <<>>, "none", NoTimer, <<>>)
  /\ calls' = <<>>
  /\ UNCHANGED <<state, audioRecorder, endOfSpeechTimeout, noSpeechAfterWakeWordTimeout,
                 finalTranscriptSinceRecording, eventResolver, recognition, recorders,
                 timers, synth, synthCancelled, activations, clock, page>>

\* events(), lines 206-214: a later next()
ConsumerNext ==
  /\ consumer = "holding"
  /\ IF eventQueue # <<>>
     THEN /\ eventQueue' = Shift(eventQueue)
          /\ yieldedNow' = <<Head(eventQueue)>>
          /\ yieldedTs' = Head(eventQueue).ts
          /\ UNCHANGED <<eventResolver, consumer>>
     ELSE /\ eventResolver' = TRUE
          /\ consumer' = "waiting"
          /\ yieldedNow' = <<>>
          /\ UNCHANGED <<eventQueue, yieldedTs>>
  /\ last' = Task("events.next", <<>>, "none", NoTimer, <<>>)
  /\ emitted' = <<>>
  /\ calls' = <<>>
  /\ UNCHANGED <<state, audioRecorder, endOfSpeechTimeout, noSpeechAfterWakeWordTimeout,
                 finalTranscriptSinceRecording, recognition, recorders,
                 timers, synth, synthCancelled, activations, clock, page>>

\* Date.now() advances
Tick ==
  /\ clock < MaxClock
  /\ clock' = clock + 1
  /\ last' = Task("tick", <<>>, "none", NoTimer, <<>>)
  /\ emitted' = <<>>
  /\ calls' = <<>>
  /\ yieldedNow' = <<>>
  /\ UNCHANGED <<state, audioRecorder, endOfSpeechTimeout, noSpeechAfterWakeWordTimeout,
                 finalTranscriptSinceRecording, eventQueue, eventResolver, recognition,
                 recorders, timers, synth, synthCancelled, activations, consumer,
                 yieldedTs, page>>

\* the client with every engine, driven by any caller, drained by a for await loop
Next ==
  \/ ToggleMute
  \/ Speak
  \/ SynthEnd
  \/ SynthError
  \/ RecognitionResult
  \/ RecognitionError
  \/ RecognitionSpeechStart
  \/ RecognitionEnd
  \/ CaptureStarted
  \/ CaptureUnavailable
  \/ RecorderStopped
  \/ TimerFires

Spec == Init /\ [][Next]_vars

\* the event channel: the tasks that emit without recording, a consumer that
\* attaches and pulls whenever it likes, and the clock
NextChannel ==
  \/ ToggleMute
  \/ Speak
  \/ SynthEnd
  \/ SynthError
  \/ RecognitionError
  \/ RecognitionEnd
  \/ ConsumerAttach
  \/ ConsumerNext
  \/ Tick

SpecChannel == InitChannel /\ [][NextChannel]_vars

\* the event channel under a consumer that keeps pulling: its first next() and
\* every later next() are called in the end
SpecChannelDrained ==
  /\ InitChannel
  /\ [][NextChannel]_vars
  /\ WF_vars(ConsumerAttach)
  /\ WF_vars(ConsumerNext)

\* the client under a caller that also assigns state, as the responder of
\* main.ts does: the public calls, the synthesizer and the recognizer's end
NextSetter ==
  \/ AssignState
  \/ ToggleMute
  \/ Speak
  \/ SynthEnd
  \/ SynthError
  \/ RecognitionEnd

SpecSetter == Init /\ [][NextSetter]_vars

\* the page of main.ts: init with the initial state Muted, the wrapper of
\* events() that hands each Command to #handleCommand, and the two mic icons
InitMain ==
  /\ consumer = "responder"
  /\ InitClient
  /\ state = MUTED
  /\ emitted = <<StateChangeEvent(state)>>
  /\ yieldedNow = emitted

NextMain ==
  \/ Click
  \/ Respond
  \/ SynthEnd
  \/ SynthError
  \/ RecognitionResult
  \/ RecognitionError
  \/ RecognitionSpeechStart
  \/ RecognitionEnd
  \/ CaptureStarted
  \/ CaptureUnavailable
  \/ RecorderStopped
  \/ TimerFires

\* what is due happens: the completion answers or fails, an utterance ends or
\* fails, the recognizer and the recorder deliver their end, a timer fires
SpecMain ==
  /\ InitMain
  /\ [][NextMain]_vars
  /\ WF_vars(Respond)
  /\ WF_vars(SynthEnd \/ SynthError)
  /\ WF_vars(RecognitionEnd)
  /\ WF_vars(RecorderStopped)
  /\ WF_vars(TimerFires)
  /\ WF_vars(CaptureStarted \/ CaptureUnavailable)

\* the client left alone by its caller: the recognizer's events, the recorder
\* and the timers; a pending timer fires in the end
NextUnattended ==
  \/ RecognitionResult
  \/ RecognitionError
  \/ RecognitionSpeechStart
  \/ RecognitionEnd
  \/ CaptureStarted
  \/ CaptureUnavailable
  \/ RecorderStopped
  \/ TimerFires

SpecUnattended == Init /\ [][NextUnattended]_vars /\ WF_vars(TimerFires)


\* ------------------------------------------------------------- what is checked
LiveSessions == {r \in RecorderIds : recorders[r].status = "live"}
PendingTimers(kind) == {t \in TimerIds : timers[t].kind = kind}

\* C1: at most one capture session (a recorder started and not yet stopped) is
\* live in every reachable state.
C1_AtMostOneLiveSession == Cardinality(LiveSessions) <= 1

\* C2: a state that is Muted stays Muted in every step that is not toggleMute().
C2_MutedUntilToggle ==
  [][(state = MUTED /\ state' # MUTED) => last'.op = "toggleMute"]_vars

\* C3: right after toggleMute() in Recording the state is Muted, the machine
\* holds no capture session, neither timer is armed, and no finalization that
\* would emit a Command is left on the recorder it held.
C3_MuteWhileRecording ==
  (last.op = "toggleMute" /\ last.pre = RECORDING_USER_SPEECH) =>
    /\ state = MUTED
    /\ audioRecorder = Undefined
    /\ endOfSpeechTimeout = Undefined
    /\ noSpeechAfterWakeWordTimeout = Undefined
    /\ PendingTimers("endOfSpeech") = {}
    /\ PendingTimers("noSpeechAfterWakeWord") = {}
    /\ ~ \E e \in 1..Len(emitted) : emitted[e].type = "command"

\* C4: a timer whose firing runs Stop-Recording in Recording was armed after
\* the current Recording state was entered.
C4_NoStaleTimerStopsRecording ==
  (last.op = "timer" /\ last.pre = RECORDING_USER_SPEECH) => ~last.timer.stale

\* C5: at most one pending instance of the post-wake-word timer and at most one
\* of the end-of-utterance timer, in every reachable state.
C5_OneTimerOfEachName ==
  /\ Cardinality(PendingTimers("noSpeechAfterWakeWord")) <= 1
  /\ Cardinality(PendingTimers("endOfSpeech")) <= 1

\* C6: the recognizer is never running while the synthesizer is playing an
\* utterance handed to it by speak().
C6_NeverListenWhileSpeaking == ~(recognition = "running" /\ synth > 0)


\* C7 as claimed: two toggleMute() calls in a row leave the state where it was
\* before the first and emit exactly two StateChange events.
C7_TwoTogglesRestoreAnyState ==
  last.second => (state = last.origin /\ last.changes = 2)

\* C7 as amended: two toggleMute() calls in a row emit exactly two StateChange
\* events and end in Muted when they began in Muted, and in ListeningForWake
\* when they began in any other state; so they restore the state exactly when
\* it was ListeningForWake or Muted.
C7_TwoTogglesRestoreListeningOrMuted ==
  last.second =>
    /\ last.changes = 2
    /\ state = IF last.origin = MUTED THEN MUTED ELSE LISTENING_FOR_WAKE_WORD

C7_Witness ==
  /\ last.second
  /\ last.origin = RECORDING_USER_SPEECH
  /\ state = LISTENING_FOR_WAKE_WORD

C9_FifoHandover ==
  /\ [](/\ \A i \in 1..Len(eventQueue) : \A j \in i..Len(eventQueue) :
              eventQueue[i].ts <= eventQueue[j].ts
        /\ \A i \in 1..Len(eventQueue) : yieldedTs <= eventQueue[i].ts)
  /\ [][/\ eventQueue \o emitted' = yieldedNow' \o eventQueue'
        /\ yieldedTs <= yieldedTs'
        /\ yieldedNow' # <<>> => yieldedTs' = yieldedNow'[Len(yieldedNow')].ts]_vars

C9_Witness ==
  /\ last.op = "events.next"
  /\ yieldedNow # <<>>
  /\ eventQueue # <<>>
  /\ yieldedNow[1].ts < eventQueue[1].ts

\* C10: the first event handed to the consumer is the StateChange that events()
\* emits at that moment, and nothing emitted earlier is handed over after it.
C10_FirstEventIsCurrentState ==
  last.op = "events.attach" => (yieldedNow = emitted /\ eventQueue = <<>>)

\* ------------------------------------------------------------- C11 .. C20
\* the fields of the object and the engines it drives
machine ==
  <<state, audioRecorder, endOfSpeechTimeout, noSpeechAfterWakeWordTimeout,
    finalTranscriptSinceRecording, recognition, recorders, timers, synth,
    synthCancelled, activations>>

IsStateChange(e) == e.type = "statechange"
IsError(e) == e.type = "error"
IsCommand(e) == e.type = "command"
Count(es, type) == Cardinality({i \in 1..Len(es) : es[i].type = type})

\* C11: an assignment to state of a value other than the current one emits
\* exactly one StateChange event carrying the new value, which becomes the
\* state; an assignment of the current value emits nothing and changes
\* nothing.  For the assignments inside a task: the StateChange events of a
\* task, in order, each carry a value other than the state before it, and the
\* last of them carries the state the task ends in.
C11_SetterEmitsOnChange ==
  [][/\ last'.op = "set state" =>
          IF last'.arg = <<state>>
          THEN emitted' = <<>> /\ UNCHANGED machine /\ UNCHANGED eventQueue
          ELSE /\ state' = last'.arg[1]
               /\ Len(emitted') = 1
               /\ IsStateChange(emitted'[1])
               /\ emitted'[1].state = state'
               /\ yieldedNow' = emitted'
     /\ LET changes == SelectSeq(emitted', IsStateChange)
        IN  /\ changes = <<>> => state' = state
            /\ changes # <<>> =>
                  /\ changes[1].state # state
                  /\ changes[Len(changes)].state = state'
                  /\ \A i \in 1..(Len(changes) - 1) :
                        changes[i].state # changes[i + 1].state]_vars

C11_Witness ==
  /\ last.op = "set state"
  /\ last.pre = SPEAKING
  /\ last.arg = <<SPEAKING>>
  /\ synth > 0
  /\ emitted = <<>>

\* C12: speak(text) in Muted returns Promise.resolve() and does nothing else:
\* no field and no engine changes, no event is emitted, and no call reaches
\* the recognizer or the synthesizer.
C12_SpeakWhileMutedIsNoOp ==
  [][(last'.op = "speak" /\ state = MUTED) =>
       /\ UNCHANGED machine
       /\ UNCHANGED <<eventQueue, eventResolver>>
       /\ emitted' = <<>>
       /\ yieldedNow' = <<>>
       /\ calls' = <<"Promise.resolve">>
       /\ last'.threw = "none"]_vars

C12_Witness ==
  /\ last.op = "speak"
  /\ last.pre = MUTED
  /\ state = MUTED
  /\ calls = <<"Promise.resolve">>
  /\ recognition = "running"

\* C13: speak(text) in ListeningForWake emits StateChange(Speaking) and then
\* SpeechStart{text}, and calls the recognizer's stop() before it hands the
\* utterance to the synthesizer; when the utterance ends with the state still
\* Speaking, SpeechEnd is emitted, then the state becomes ListeningForWake, the
\* recognizer is started and the completion is fulfilled.
C13_SpeakFromListening ==
  /\ (last.op = "speak" /\ last.pre = LISTENING_FOR_WAKE_WORD) =>
        /\ Len(emitted) = 2
        /\ IsStateChange(emitted[1]) /\ emitted[1].state = SPEAKING
        /\ emitted[2].type = "speakstart" /\ emitted[2].text = last.arg
        /\ state = SPEAKING
        /\ calls = <<"recognition.stop", "speechSynthesis.speak">>
        /\ recognition # "running"
  /\ (last.op = "utterance.onend" /\ last.pre = SPEAKING) =>
        /\ Len(emitted) = 2
        /\ emitted[1].type = "speakend"
        /\ IsStateChange(emitted[2]) /\ emitted[2].state = LISTENING_FOR_WAKE_WORD
        /\ state = LISTENING_FOR_WAKE_WORD
        /\ calls = <<"recognition.start", "resolve">>
        /\ recognition = "running"
        /\ last.threw = "none"

\* C14: when the utterance fails, one Error event with the engine's description
\* is emitted, the state becomes ListeningForWake unless it is Muted (and so is
\* never left at Speaking), the recognizer is started, and the completion of
\* speak() is rejected.
C14_SynthesisFailure ==
  last.op = "utterance.onerror" =>
    /\ Count(emitted, "error") = 1
    /\ IsError(emitted[1]) /\ emitted[1].state = "TTS Error"
    /\ state = IF last.pre = MUTED THEN MUTED ELSE LISTENING_FOR_WAKE_WORD
    /\ calls = <<"recognition.start", "reject">>
    /\ recognition = "running"
    /\ last.threw = "none"

\* C15: when AudioRecorder.start fails in #activate, an Error event is emitted,
\* the state goes from Activating back to ListeningForWake, and nothing is
\* thrown out of the recognizer's result callback.
C15_CaptureUnavailableSurfaced ==
  (last.op = "activate.fail" /\ last.pre = ACTIVATING) =>
    /\ Count(emitted, "error") = 1
    /\ state = LISTENING_FOR_WAKE_WORD
    /\ last.threw = "none"

\* C16: when the recorder fails to produce the audio in #stopRecording, an
\* Error event and then a Command event without audio are emitted, and
\* #audioRecorder is cleared.
C16_FinalizeFailureSurfaced ==
  (last.op = "recorder.onstop" /\ last.arg = <<"command", "reject">>) =>
    /\ Len(emitted) = 2
    /\ IsError(emitted[1])
    /\ IsCommand(emitted[2]) /\ ~emitted[2].flag
    /\ audioRecorder = Undefined

\* what the wake pattern is tested on, line 371
WakeText(results) == Collect(results, 1, FALSE) \o Collect(results, 1, TRUE)

\* C17: a recognizer result in ListeningForWake whose interim text followed by
\* its finalized text matches the wake pattern emits StateChange(Activating) as
\* its last event, empties the accumulated transcript and begins one
\* AudioRecorder.start (and a result that does not match does none of this);
\* when that start resolves in Activating, one recorder is started and held,
\* StateChange(Recording) is emitted and the post-wake-word timer is armed with
\* 15000ms; and the firing of that timer in Recording runs Stop-Recording.
C17_WakeWordActivates ==
  [][/\ (last'.op = "onresult" /\ state = LISTENING_FOR_WAKE_WORD) =>
          IF WakePhraseRegexTest(WakeText(last'.arg))
          THEN /\ state' = ACTIVATING
               /\ StateChanges(emitted') = 1
               /\ emitted'[Len(emitted')].type = "statechange"
               /\ emitted'[Len(emitted')].state = ACTIVATING
               /\ finalTranscriptSinceRecording' = <<>>
               /\ activations' = activations + 1
               /\ recorders' = recorders
          ELSE /\ state' = state
               /\ activations' = activations
               /\ finalTranscriptSinceRecording' = finalTranscriptSinceRecording
     /\ (last'.op = "activate.resume" /\ state = ACTIVATING) =>
          /\ state' = RECORDING_USER_SPEECH
          /\ Len(emitted') = 1
          /\ IsStateChange(emitted'[1]) /\ emitted'[1].state = RECORDING_USER_SPEECH
          /\ calls' = <<"mediaRecorder.start">>
          /\ activations' = activations - 1
          /\ audioRecorder' \in RecorderIds
          /\ recorders'[audioRecorder'].status = "live"
          /\ noSpeechAfterWakeWordTimeout' \in TimerIds
          /\ timers'[noSpeechAfterWakeWordTimeout'] =
               [kind |-> "noSpeechAfterWakeWord", ms |-> 15000, stale |-> FALSE]
     /\ (last'.op = "timer" /\ last'.timer.kind = "noSpeechAfterWakeWord"
           /\ state = RECORDING_USER_SPEECH) =>
          /\ state' = PROCESSING_USER_SPEECH
          /\ IsStateChange(emitted'[1]) /\ emitted'[1].state = PROCESSING_USER_SPEECH]_vars

C17_Witness ==
  /\ last.op = "activate.resume"
  /\ last.pre = ACTIVATING
  /\ state = RECORDING_USER_SPEECH
  /\ finalTranscriptSinceRecording = <<>>
  /\ Cardinality(LiveSessions) = 1
  /\ PendingTimers("noSpeechAfterWakeWord") = {noSpeechAfterWakeWordTimeout}

\* C18: the firing of the end-of-utterance timer in Recording sets the state to
\* Processing, leaves neither timer armed, stops the recorder the machine holds
\* and emits no event but the StateChange; the recorder's stop event then emits
\* exactly one Command, with audio exactly when the recorder has any, and
\* leaves the state as it is.
C18_EndOfSpeechTimerStopsRecording ==
  [][/\ (last'.op = "timer" /\ last'.timer.kind = "endOfSpeech"
           /\ state = RECORDING_USER_SPEECH) =>
          /\ state' = PROCESSING_USER_SPEECH
          /\ Len(emitted') = 1
          /\ IsStateChange(emitted'[1]) /\ emitted'[1].state = PROCESSING_USER_SPEECH
          /\ endOfSpeechTimeout' = Undefined
          /\ noSpeechAfterWakeWordTimeout' = Undefined
          /\ PendingTimers("endOfSpeech")' = {}
          /\ PendingTimers("noSpeechAfterWakeWord")' = {}
          /\ calls' = <<"mediaRecorder.stop">>
          /\ audioRecorder' \in RecorderIds
          /\ recorders'[audioRecorder'] = [status |-> "stopping", onstop |-> "command"]
          /\ last'.threw = "none"
     /\ (last'.op = "recorder.onstop" /\ last'.arg[1] = "command"
           /\ last'.arg[2] # "reject") =>
          /\ Len(emitted') = 1
          /\ IsCommand(emitted'[1])
          /\ emitted'[1].flag = (last'.arg[2] = "audio")
          /\ state' = state]_vars

\* C19: after every recognizer result handled in Recording exactly one
\* end-of-utterance timer is pending, newly armed and named by
\* #endOfSpeechTimeout, with 5000ms when the accumulated finalized transcript
\* (this result's finalized text appended) and this result's interim text are
\* both empty, and with 1700ms otherwise.
C19_EndOfSpeechTimeoutPolicy ==
  (last.op = "onresult" /\ last.pre = RECORDING_USER_SPEECH) =>
    /\ endOfSpeechTimeout \in TimerIds
    /\ PendingTimers("endOfSpeech") = {endOfSpeechTimeout}
    /\ ~timers[endOfSpeechTimeout].stale
    /\ timers[endOfSpeechTimeout].ms =
         IF finalTranscriptSinceRecording = <<>> /\ Collect(last.arg, 1, FALSE) = <<>>
         THEN 5000 ELSE 1700

C19_Witness ==
  /\ last.op = "onresult"
  /\ last.pre = RECORDING_USER_SPEECH
  /\ finalTranscriptSinceRecording # <<>>
  /\ Collect(last.arg, 1, FALSE) = <<>>
  /\ Collect(last.arg, 1, TRUE) = <<>>
  /\ timers[endOfSpeechTimeout].ms = 1700

\* C20: the recognizer error "no-speech" in Recording leaves the machine
\* exactly where the firing of the pending end-of-utterance timer would have:
\* the same state (Processing), the same timer fields (both undefined) and
\* pending timers, the same recorders (the one held stopped for a Command), the
\* same events (the StateChange and no Error) and the same exception if any;
\* in any other state it emits nothing and changes no field, timer or recorder.
C20_NoSpeechIsEndOfUtterance ==
  [][(last'.op = "onerror" /\ last'.arg = <<"no-speech">>) =>
       IF state = RECORDING_USER_SPEECH
       THEN /\ state' = PROCESSING_USER_SPEECH
            /\ endOfSpeechTimeout' = Undefined
            /\ noSpeechAfterWakeWordTimeout' = Undefined
            /\ Count(emitted', "error") = 0
            /\ \A t \in PendingTimers("endOfSpeech") :
                 LET m == Renumber(StopRecording(Fired(Cur, t)))
                 IN  /\ state' = m.state
                     /\ audioRecorder' = m.audioRecorder
                     /\ endOfSpeechTimeout' = m.endOfSpeechTimeout
                     /\ noSpeechAfterWakeWordTimeout' = m.noSpeechAfterWakeWordTimeout
                     /\ finalTranscriptSinceRecording' = m.finalTranscriptSinceRecording
                     /\ timers' = m.timers
                     /\ recorders' = m.recorders
                     /\ emitted' = m.es
                     /\ calls' = m.calls
                     /\ last'.threw = m.threw
       ELSE /\ emitted' = <<>>
            /\ calls' = <<>>
            /\ UNCHANGED <<state, audioRecorder, endOfSpeechTimeout,
                           noSpeechAfterWakeWordTimeout, finalTranscriptSinceRecording,
                           recorders, timers, synth, synthCancelled, activations>>]_vars

C20_Witness ==
  /\ last.op = "onerror"
  /\ last.arg = <<"no-speech">>
  /\ last.pre = RECORDING_USER_SPEECH
  /\ state = PROCESSING_USER_SPEECH
  /\ finalTranscriptSinceRecording # <<>>
  /\ calls = <<"mediaRecorder.stop">>
  /\ PendingTimers("endOfSpeech") = {}

\* C21: a recorder is stopped at most once: every call of stop() in a task is
\* on a recorder that was live and is not live afterwards; and a timer that
\* fires in a state other than Recording runs a Stop-Recording that changes
\* no state, clears no other timer and emits nothing.
C21_SessionStoppedAtMostOnce ==
  [][/\ last'.op # "activate.resume" =>
          CallCount(calls', "mediaRecorder.stop")
            = Cardinality(LiveSessions) - Cardinality(LiveSessions')
     /\ (last'.op = "timer" /\ state # RECORDING_USER_SPEECH) =>
          /\ state' = state
          /\ emitted' = <<>>
          /\ calls' = <<>>
          /\ Cardinality({t \in TimerIds : timers'[t] # NoTimer})
               = Cardinality({t \in TimerIds : timers[t] # NoTimer}) - 1
          /\ recorders' = recorders
          /\ audioRecorder' = audioRecorder]_vars

\* C22: in Recording #audioRecorder names a recorder that is live, so line 332
\* of #stopRecording never finds the field undefined.
C22_RecordingHoldsSession ==
  /\ state = RECORDING_USER_SPEECH =>
        /\ audioRecorder \in RecorderIds
        /\ recorders[audioRecorder].status = "live"
  /\ last.threw # "TypeError"

\* C23: with no toggleMute() and no speak(), and every pending timer firing in
\* the end, a machine in Recording reaches Processing whatever results,
\* speech-start and end events the recognizer delivers.
C23_RecordingIsLeft ==
  (state = RECORDING_USER_SPEECH) ~> (state = PROCESSING_USER_SPEECH)

\* C24: in Muted the recognizer is not running, and no task that starts in
\* Muted, toggleMute() apart, calls the recognizer's start(); init with the
\* initial state Muted is such a task.
C24_MutedNeverListens ==
  /\ state = MUTED => recognition # "running"
  /\ (last.pre = MUTED /\ last.op # "toggleMute") =>
        CallCount(calls, "recognition.start") = 0

\* C25: the recognizer's start() is never called while the session started
\* earlier has not delivered its end event: no task ends in the
\* InvalidStateError that start() throws then.
C25_NoStartWhileActive == last.threw # "InvalidStateError"

\* C26: no task that ends in Muted has emitted a Command event.
C26_NoCommandWhileMuted == state = MUTED => Count(emitted, "command") = 0

\* C27: on the page of main.ts every Command event, with or without an audio
\* locator, is followed by the state ListeningForWake, unless a click calls
\* toggleMute() first.
C27_CommandIsAnswered ==
  (Count(emitted, "command") > 0) ~> (state = LISTENING_FOR_WAKE_WORD \/ last.op = "click")

\* C28: on the page of main.ts, in ListeningForWake the recognizer is started
\* or the end event of its session is pending, however the command handling
\* and the clicks interleave.
C28_ListeningMeansRecognizing ==
  state = LISTENING_FOR_WAKE_WORD => recognition # "idle"

\* C29: once the synthesizer has reported the end or the failure of every
\* utterance handed to it, nobody is left awaiting a completion of speak(),
\* also when speak() was called again while an earlier utterance was playing.
C29_EverySpeakSettles ==
  (synth = 0 /\ synthCancelled = 0) => (page.awaiting = "none" /\ page.stranded = 0)

\* C30: a consumer is blocked in events() only on an empty queue with its
\* resolver installed; the next task that emits wakes it and hands it the first
\* event emitted, the rest staying queued; and under a consumer that keeps
\* pulling, whenever an event is queued an event is handed over later, which by
\* the order of C9 is the event at the head.
C30_BlockedConsumerIsWoken ==
  /\ [](consumer = "waiting" => (eventQueue = <<>> /\ eventResolver))
  /\ [][(consumer = "waiting" /\ emitted' # <<>>) =>
          /\ yieldedNow' = <<emitted'[1]>>
          /\ eventQueue' = Tail(emitted')
          /\ consumer' = "holding"
          /\ ~eventResolver']_vars
  /\ (eventQueue # <<>> /\ yieldedNow = <<>>) ~> (yieldedNow # <<>>)

C30_Witness ==
  /\ last.op = "speak"
  /\ consumer = "holding"
  /\ ~eventResolver
  /\ Len(emitted) > 1
  /\ yieldedNow = <<emitted[1]>>
  /\ eventQueue = Tail(emitted)

\* ------------------------------------------------------------- C31 .. C35
\* the pending timers that are the record v
TimerCount(ts, v) == Cardinality({t \in TimerIds : ts[t] = v})

\* C31: the accumulated transcript is empty after every step that enters
\* Recording, and a step changes it only by emptying it or, for a result
\* received in Recording, by appending the finalized text of that result;
\* interim text and the text of results received in another state are not
\* appended.
C31_TranscriptAccumulates ==
  [][/\ (state # RECORDING_USER_SPEECH /\ state' = RECORDING_USER_SPEECH) =>
          finalTranscriptSinceRecording' = <<>>
     /\ finalTranscriptSinceRecording' # finalTranscriptSinceRecording =>
          \/ finalTranscriptSinceRecording' = <<>>
          \/ /\ last'.op = "onresult"
             /\ state = RECORDING_USER_SPEECH
     /\ (last'.op = "onresult" /\ state = RECORDING_USER_SPEECH) =>
          finalTranscriptSinceRecording' =
            finalTranscriptSinceRecording \o Collect(last'.arg, 1, TRUE)]_vars

\* C32: a recognizer result received in Muted emits nothing, calls nothing and
\* changes no field, timer, recorder or pending activation, also when its text
\* matches the wake pattern.
C32_ResultInMutedIgnored ==
  [][(last'.op = "onresult" /\ state = MUTED) =>
       /\ emitted' = <<>>
       /\ calls' = <<>>
       /\ UNCHANGED machine]_vars

C32_Witness ==
  /\ last.op = "onresult"
  /\ last.pre = MUTED
  /\ WakePhraseRegexTest(WakeText(last.arg))
  /\ state = MUTED
  /\ activations = 0
  /\ emitted = <<>>

\* C33: a recognizer error other than "aborted" and "no-speech" emits exactly
\* one Error event, first, in every state; in Recording it then runs
\* Stop-Recording: the state becomes Processing and the recorder the machine
\* holds is stopped for a Command; in any other state the state is unchanged;
\* the error "aborted" emits nothing, calls nothing and changes no field, timer
\* or recorder.
C33_RecognizerErrorSurfaced ==
  [][/\ (last'.op = "onerror" /\ last'.arg \notin {<<"aborted">>, <<"no-speech">>}) =>
          /\ Count(emitted', "error") = 1
          /\ IsError(emitted'[1])
          /\ IF state = RECORDING_USER_SPEECH
             THEN /\ state' = PROCESSING_USER_SPEECH
                  /\ last'.threw = "none"
                  /\ audioRecorder' \in RecorderIds
                  /\ recorders'[audioRecorder'] = [status |-> "stopping", onstop |-> "command"]
             ELSE /\ state' = state
                  /\ Len(emitted') = 1
     /\ (last'.op = "onerror" /\ last'.arg = <<"aborted">>) =>
          /\ emitted' = <<>>
          /\ calls' = <<>>
          /\ UNCHANGED <<state, audioRecorder, endOfSpeechTimeout,
                         noSpeechAfterWakeWordTimeout, finalTranscriptSinceRecording,
                         recorders, timers, synth, synthCancelled, activations>>]_vars

\* C34: a speech-start event in Recording with the post-wake-word timer armed
\* cancels that timer and no other and empties the field; it emits nothing and
\* changes neither the state, the end-of-utterance timer, the recorders nor the
\* transcript; in any other state it changes nothing at all.
C34_SpeechStartCancelsNoSpeechTimer ==
  [][last'.op = "onspeechstart" =>
       /\ emitted' = <<>>
       /\ calls' = <<>>
       /\ UNCHANGED <<state, audioRecorder, recorders, finalTranscriptSinceRecording,
                      synth, synthCancelled, activations>>
       /\ (endOfSpeechTimeout \in TimerIds) = (endOfSpeechTimeout' \in TimerIds)
       /\ endOfSpeechTimeout \in TimerIds =>
             timers'[endOfSpeechTimeout'] = timers[endOfSpeechTimeout]
       /\ IF state = RECORDING_USER_SPEECH /\ noSpeechAfterWakeWordTimeout \in TimerIds
          THEN /\ noSpeechAfterWakeWordTimeout' = Undefined
               /\ \A t \in TimerIds : timers[t] # NoTimer =>
                     TimerCount(timers', timers[t]) =
                       TimerCount(timers, timers[t])
                       - (IF timers[t] = timers[noSpeechAfterWakeWordTimeout] THEN 1 ELSE 0)
               /\ \A t \in TimerIds : timers'[t] # NoTimer =>
                     TimerCount(timers, timers'[t]) > 0
          ELSE /\ timers' = timers
               /\ endOfSpeechTimeout' = endOfSpeechTimeout
               /\ state # RECORDING_USER_SPEECH =>
                     noSpeechAfterWakeWordTimeout' = noSpeechAfterWakeWordTimeout]_vars

C34_Witness ==
  /\ last.op = "onspeechstart"
  /\ last.pre = RECORDING_USER_SPEECH
  /\ state = RECORDING_USER_SPEECH
  /\ noSpeechAfterWakeWordTimeout = Undefined
  /\ PendingTimers("noSpeechAfterWakeWord") = {}
  /\ endOfSpeechTimeout \in TimerIds

\* C35: the end event of the recognizer's session makes exactly one call,
\* recognition.start(), which succeeds, when the state is ListeningForWake,
\* Activating, Recording or Processing, and no call when it is Speaking or
\* Muted; either way the state is unchanged and nothing is emitted.
C35_SessionEndRestarts ==
  [][last'.op = "onend" =>
       /\ state' = state
       /\ emitted' = <<>>
       /\ IF state \in {LISTENING_FOR_WAKE_WORD, ACTIVATING, RECORDING_USER_SPEECH,
                        PROCESSING_USER_SPEECH}
          THEN /\ calls' = <<"recognition.start">>
               /\ last'.threw = "none"
               /\ recognition' = "running"
          ELSE /\ calls' = <<>>
               /\ recognition' = "idle"]_vars

C35_Witness ==
  /\ last.op = "onend"
  /\ last.pre = PROCESSING_USER_SPEECH
  /\ state = PROCESSING_USER_SPEECH
  /\ recognition = "running"
  /\ calls = <<"recognition.start">>

====
